---- MODULE Spec2Model ----
(***************************************************************************)
(* Model of src/app.py: the Flask backend of the visual anomaly detection  *)
(* service.  The state is the history file (history.json), the upload      *)
(* directory, and the position and local variables of every request that   *)
(* the (threaded) server is handling.  A /predict request is a sequence of *)
(* steps, one per externally visible effect of the handler, so that        *)
(* requests interleave exactly where the code lets them: between saving    *)
(* the upload, calling the detector, reading history.json, truncating it   *)
(* and writing it back.                                                    *)
(***************************************************************************)
EXTENDS FiniteSets, Integers, Sequences, TLC

(* ------------------------------ bounds -------------------------------- *)

\* Number of requests the server receives in one behaviour.
NReq == 2

Req == 1..NReq

(* ------------------------- configuration ------------------------------ *)

\* app.py:21
UPLOAD_FOLDER == "uploads"

(* ----------------------------- inputs --------------------------------- *)

\* Marks a field that the multipart form / files dictionary does not hold.
NoField == "<absent>"

\* file.filename of the uploaded image, as sent by the client.
Filenames == {"", "../cat.png", ".."}

\* Values of the username form field, and of the /history/<username> segment.
FormUsernames == {"alice", "Alice"}
PathUsernames == {"alice", "Alice", "unknown"}

\* request.host_url
HostUrls == {"http://host/"}

\* What detect_anomaly can return (it is opaque to app.py): a label, a score
\* and the paths of two artifact images, in any directory.
AdapterResults ==
    { [label |-> "anomaly", score |-> 87,
       outline_image |-> "/tmp/out_cat.png", filled_image |-> "/tmp/fill_cat.png"],
      [label |-> "normal", score |-> 5,
       outline_image |-> "results/out_cat.png", filled_image |-> "results/fill_cat.png"] }

NoResult == [label |-> "", score |-> 0, outline_image |-> "", filled_image |-> ""]

\* The requests a client can send to the two routes modelled here.
\* A browser's pre-flight OPTIONS request has no body; one that carries an
\* image all the same is among the inputs.
PredictRequests ==
    [method : {"POST"}, route : {"predict"},
     image : Filenames \cup {NoField}, username : FormUsernames \cup {NoField},
     host_url : HostUrls]
    \cup
    [method : {"OPTIONS"}, route : {"predict"},
     image : {NoField, "../cat.png"}, username : {NoField}, host_url : HostUrls]

HistoryRequests ==
    [method : {"GET"}, route : {"history"},
     image : {NoField}, username : PathUsernames, host_url : HostUrls]

NoRequest ==
    [method |-> "", route |-> "", image |-> NoField, username |-> NoField,
     host_url |-> ""]

(* ------------------------- library functions -------------------------- *)

\* werkzeug.utils.secure_filename on the filenames above: path separators
\* become "_", and leading/trailing dots and underscores are stripped.
SecureFilename(name) ==
    CASE name = "cat.png"    -> "cat.png"
      [] name = "../cat.png" -> "cat.png"
      [] name = ".."         -> ""
      [] OTHER               -> name

\* os.path.join(UPLOAD_FOLDER, filename)
ImagePath(filename) == UPLOAD_FOLDER \o "/" \o filename

\* Whether open(path, "wb"), which file.save does, fails because the path
\* names a directory.
IsADirectory(path) == path = UPLOAD_FOLDER \o "/"

\* os.path.basename on the artifact paths above.
Basename(path) ==
    CASE path = "/tmp/out_cat.png"      -> "out_cat.png"
      [] path = "/tmp/fill_cat.png"     -> "fill_cat.png"
      [] path = "results/out_cat.png"   -> "out_cat.png"
      [] path = "results/fill_cat.png"  -> "fill_cat.png"
      [] OTHER                          -> path

\* request.host_url.rstrip("/")
BaseUrl(host_url) ==
    CASE host_url = "http://host/" -> "http://host"
      [] OTHER                     -> host_url

\* datetime.now().strftime("%Y-%m-%d %H:%M:%S"): what the server's local clock
\* shows when the handler reads it.
Timestamps == {"2026-01-01 00:00:00", "2026-01-01 00:00:01"}

(* ------------------------------ state --------------------------------- *)

VARIABLES
    pc,           \* pc[r]: where request r is in its handler
    req,          \* req[r]: the request as received
    local,        \* local[r]: the handler's local variables
    resp,         \* resp[r]: the response sent (status 0: none yet)
    raised,       \* raised[r]: the exception that ended the handler, or ""
    historyFile,  \* history.json on disk
    uploads,      \* names of the files in the upload directory
    detectLog,    \* detectLog[r]: how each call of detect_anomaly for r ended
    writes,       \* how many times history.json has been written completely
    crashes       \* how many times the process has died and been restarted

vars == <<pc, req, local, resp, raised, historyFile, uploads, detectLog,
          writes, crashes>>

\* history.json: absent, a valid JSON array of records, empty (just opened
\* with "w"), or bytes that are not a JSON document.  size counts the records
\* whose bytes are in the file.
AbsentFile == [state |-> "absent", recs |-> <<>>, size |-> 0]
TruncatedFile == [state |-> "truncated", recs |-> <<>>, size |-> 0]
ValidFile(history) == [state |-> "valid", recs |-> history, size |-> Len(history)]
CorruptFile(n) == [state |-> "corrupt", recs |-> <<>>, size |-> n]

\* The locals of a handler: filename, result, timestamp and history are the
\* variables of predict / user_history; loaded says whether history is bound;
\* loadedAt and savedAt are the values of writes when the handler read and
\* wrote history.json; process is the incarnation of the server that ran it.
NoLocal ==
    [filename |-> "", result |-> NoResult, timestamp |-> "", loaded |-> FALSE,
     history |-> <<>>, loadedAt |-> 0, savedAt |-> 0, process |-> 0]

NoResponse == [status |-> 0, body |-> <<>>]

\* Flask's answer to an exception that leaves a handler.
ServerError == [status |-> 500, body |-> "Internal Server Error"]

\* A record that an earlier run of the server left in history.json.
EarlierRecord ==
    [username |-> "alice", image |-> "http://host/uploads/dog.png",
     result |-> "normal", score |-> 5, time |-> "2025-12-31 23:59:59",
     outline_image |-> "http://host/results/out_dog.png",
     filled_image |-> "http://host/results/fill_dog.png"]

\* history.json when the process starts: not there yet, or left by earlier runs.
InitialFiles == {AbsentFile, ValidFile(<<EarlierRecord>>)}

Init ==
    /\ pc = [r \in Req |-> "idle"]
    /\ req = [r \in Req |-> NoRequest]
    /\ local = [r \in Req |-> NoLocal]
    /\ resp = [r \in Req |-> NoResponse]
    /\ raised = [r \in Req |-> ""]
    /\ historyFile \in InitialFiles
    /\ uploads = {}
    /\ detectLog = [r \in Req |-> <<>>]
    /\ writes = 0
    /\ crashes = 0

(* --------------------------- history helpers -------------------------- *)


\* load_history that answers [] for a file it cannot parse.
LoadHistoryForgiving(file) ==
    CASE file.state = "valid" -> [ok |-> TRUE, history |-> file.recs]
      [] OTHER                -> [ok |-> TRUE, history |-> <<>>]

\* load_history (app.py:32-36): [] when the file does not exist, the parsed
\* array when it holds one; json.load raises on an empty or damaged file.
LoadHistory(file) ==
    CASE file.state = "absent" -> [ok |-> TRUE, history |-> <<>>]
      [] file.state = "valid"  -> [ok |-> TRUE, history |-> file.recs]
      [] OTHER                 -> [ok |-> FALSE, history |-> <<>>]

\* open(HISTORY_FILE, "w") (app.py:40): creates the file or truncates it to
\* zero bytes, whatever it held.
OpenForWriting(file) == TruncatedFile

\* json.dump(history, f, indent=4) and the close of f (app.py:41): the document
\* is written from offset 0 of the handle.  On a file that is empty this leaves
\* exactly the document.  When another handle has written since this one was
\* opened the bytes overlap: a longer document covers the old bytes, a shorter
\* one leaves their tail behind it (not JSON any more), and for documents of
\* the same number of records the byte lengths decide.
WriteDocument(file, history) ==
    IF file.size = 0 \/ file.size < Len(history)
    THEN {ValidFile(history)}
    ELSE IF file.size > Len(history)
    THEN {CorruptFile(file.size)}
    ELSE {ValidFile(history), CorruptFile(file.size)}

(* --------------------------- /predict helpers ------------------------- *)

\* request.form.get("username", "unknown") (app.py:85)
Username(q) == IF q.username = NoField THEN "unknown" ELSE q.username


\* Validate without the test for the image field (app.py:81-82 left out).
ValidateWithoutImageCheck(q) ==
    IF q.method = "OPTIONS"
    THEN [status |-> 200, body |-> [ok |-> TRUE]]
    ELSE IF q.image = ""
    THEN [status |-> 400, body |-> [error |-> "Empty filename"]]
    ELSE NoResponse

\* Validate without the test for an empty filename (app.py:87-88 left out).
ValidateWithoutFilenameCheck(q) ==
    IF q.method = "OPTIONS"
    THEN [status |-> 200, body |-> [ok |-> TRUE]]
    ELSE IF q.image = NoField
    THEN [status |-> 400, body |-> [error |-> "No image provided"]]
    ELSE NoResponse

\* Validate without the pre-flight answer (app.py:78-79 left out).
ValidateWithoutPreflight(q) ==
    IF q.image = NoField
    THEN [status |-> 400, body |-> [error |-> "No image provided"]]
    ELSE IF q.image = ""
    THEN [status |-> 400, body |-> [error |-> "Empty filename"]]
    ELSE NoResponse

\* The early returns of predict (app.py:78-88); NoResponse: the handler goes on.
Validate(q) ==
    IF q.method = "OPTIONS"
    THEN [status |-> 200, body |-> [ok |-> TRUE]]
    ELSE IF q.image = NoField
    THEN [status |-> 400, body |-> [error |-> "No image provided"]]
    ELSE IF q.image = ""
    THEN [status |-> 400, body |-> [error |-> "Empty filename"]]
    ELSE NoResponse

\* The dictionary appended to the history (app.py:102-110).
HistoryRecord(q, filename, result, timestamp) ==
    [username      |-> Username(q),
     image         |-> BaseUrl(q.host_url) \o "/uploads/" \o filename,
     result        |-> result.label,
     score         |-> result.score,
     time          |-> timestamp,
     outline_image |-> BaseUrl(q.host_url) \o "/results/" \o Basename(result.outline_image),
     filled_image  |-> BaseUrl(q.host_url) \o "/results/" \o Basename(result.filled_image)]

\* The 200 response of predict (app.py:114-119).
PredictResponse(q, result) ==
    [status |-> 200,
     body |-> [result        |-> result.label,
               anomaly_score |-> result.score,
               outline_image |-> BaseUrl(q.host_url) \o "/results/" \o Basename(result.outline_image),
               filled_image  |-> BaseUrl(q.host_url) \o "/results/" \o Basename(result.filled_image)]]

(* --------------------------- /history helper -------------------------- *)


\* str.lower on the usernames of the model.
Lower(name) == IF name = "Alice" THEN "alice" ELSE name

\* UserRecords comparing the usernames without regard to case.
RECURSIVE UserRecordsIgnoringCase(_, _)
UserRecordsIgnoringCase(history, username) ==
    IF history = <<>>
    THEN <<>>
    ELSE IF Lower(Head(history).username) = Lower(username)
    THEN <<Head(history)>> \o UserRecordsIgnoringCase(Tail(history), username)
    ELSE UserRecordsIgnoringCase(Tail(history), username)

\* [h for h in history if h["username"] == username] (app.py:137)
RECURSIVE UserRecords(_, _)
UserRecords(history, username) ==
    IF history = <<>>
    THEN <<>>
    ELSE IF Head(history).username = username
    THEN <<Head(history)>> \o UserRecords(Tail(history), username)
    ELSE UserRecords(Tail(history), username)

(* ------------------------------ actions ------------------------------- *)

InFlight(r) == pc[r] \notin {"idle", "done", "killed"}

\* Requests are numbered in order of arrival.
NextToArrive(r) ==
    /\ pc[r] = "idle"
    /\ \A q \in Req : q < r => pc[q] # "idle"

\* predict, app.py:75-92, for the request q that arrives as request r: the
\* pre-flight answer, the two input checks, then the filename is sanitized and
\* the upload stored.  A name that sanitizes to "" makes image_path the upload
\* directory itself, and file.save raises IsADirectoryError.
PredictStart(r) ==
    /\ NextToArrive(r)
    /\ \E q \in PredictRequests :
          /\ req' = [req EXCEPT ![r] = q]
          /\ IF Validate(q) # NoResponse
             THEN /\ resp' = [resp EXCEPT ![r] = Validate(q)]
                  /\ pc' = [pc EXCEPT ![r] = "done"]
                  /\ local' = [local EXCEPT ![r].process = crashes]
                  /\ UNCHANGED <<raised, uploads>>
             ELSE IF IsADirectory(ImagePath(SecureFilename(q.image)))
             THEN /\ raised' = [raised EXCEPT ![r] = "IsADirectoryError"]
                  /\ resp' = [resp EXCEPT ![r] = ServerError]
                  /\ pc' = [pc EXCEPT ![r] = "done"]
                  /\ local' = [local EXCEPT ![r].process = crashes]
                  /\ UNCHANGED uploads
             ELSE /\ local' = [local EXCEPT ![r].filename = SecureFilename(q.image),
                                            ![r].process = crashes]
                  /\ uploads' = uploads \cup {SecureFilename(q.image)}
                  /\ pc' = [pc EXCEPT ![r] = "detect"]
                  /\ UNCHANGED <<raised, resp>>
    /\ UNCHANGED <<historyFile, detectLog, writes, crashes>>


\* PredictDetect with a retry: after detect_anomaly raises, the handler calls
\* it again instead of letting the exception out.
PredictDetectRetrying(r) ==
    /\ pc[r] = "detect"
    /\ \/ /\ detectLog' = [detectLog EXCEPT ![r] = Append(@, "raised")]
          /\ Len(detectLog[r]) < 2
          /\ UNCHANGED <<local, raised, resp, pc>>
       \/ /\ detectLog' = [detectLog EXCEPT ![r] = Append(@, "returned")]
          /\ \E result \in AdapterResults, timestamp \in Timestamps :
                local' = [local EXCEPT ![r].result = result,
                                       ![r].timestamp = timestamp]
          /\ pc' = [pc EXCEPT ![r] = "load"]
          /\ UNCHANGED <<raised, resp>>
    /\ UNCHANGED <<req, historyFile, uploads, writes, crashes>>

\* predict, app.py:95-98: one call of detect_anomaly, which returns a result or
\* raises; then the timestamp is taken.
PredictDetect(r) ==
    /\ pc[r] = "detect"
    /\ \/ /\ detectLog' = [detectLog EXCEPT ![r] = Append(@, "raised")]
          /\ raised' = [raised EXCEPT ![r] = "AdapterError"]
          /\ resp' = [resp EXCEPT ![r] = ServerError]
          /\ pc' = [pc EXCEPT ![r] = "done"]
          /\ UNCHANGED local
       \/ /\ detectLog' = [detectLog EXCEPT ![r] = Append(@, "returned")]
          /\ \E result \in AdapterResults, timestamp \in Timestamps :
                local' = [local EXCEPT ![r].result = result,
                                       ![r].timestamp = timestamp]
          /\ pc' = [pc EXCEPT ![r] = "load"]
          /\ UNCHANGED <<raised, resp>>
    /\ UNCHANGED <<req, historyFile, uploads, writes, crashes>>

\* predict, app.py:101: history = load_history()
PredictLoadHistory(r) ==
    /\ pc[r] = "load"
    /\ IF LoadHistory(historyFile).ok
       THEN /\ local' = [local EXCEPT ![r].history = LoadHistory(historyFile).history,
                                      ![r].loaded = TRUE,
                                      ![r].loadedAt = writes]
            /\ pc' = [pc EXCEPT ![r] = "append"]
            /\ UNCHANGED <<raised, resp>>
       ELSE /\ raised' = [raised EXCEPT ![r] = "JSONDecodeError"]
            /\ resp' = [resp EXCEPT ![r] = ServerError]
            /\ pc' = [pc EXCEPT ![r] = "done"]
            /\ UNCHANGED local
    /\ UNCHANGED <<req, historyFile, uploads, detectLog, writes, crashes>>


\* PredictSaveOpen reading history.json again right before it rewrites it, so
\* that the record is appended to what the file holds then.
PredictSaveOpenRereading(r) ==
    /\ pc[r] = "append"
    /\ local' = [local EXCEPT ![r].history =
                    Append(LoadHistory(historyFile).history,
                           HistoryRecord(req[r], local[r].filename,
                                         local[r].result, local[r].timestamp))]
    /\ historyFile' = OpenForWriting(historyFile)
    /\ pc' = [pc EXCEPT ![r] = "write"]
    /\ UNCHANGED <<req, resp, raised, uploads, detectLog, writes, crashes>>

\* predict, app.py:102-110, and save_history up to the open (app.py:40): the
\* record is appended to the local list and history.json is truncated.
PredictSaveOpen(r) ==
    /\ pc[r] = "append"
    /\ local' = [local EXCEPT ![r].history =
                    Append(@, HistoryRecord(req[r], local[r].filename,
                                            local[r].result, local[r].timestamp))]
    /\ historyFile' = OpenForWriting(historyFile)
    /\ pc' = [pc EXCEPT ![r] = "write"]
    /\ UNCHANGED <<req, resp, raised, uploads, detectLog, writes, crashes>>

\* save_history from the dump on (app.py:41), and the response (app.py:114-119).
PredictSaveWrite(r) ==
    /\ pc[r] = "write"
    /\ historyFile' \in WriteDocument(historyFile, local[r].history)
    /\ writes' = writes + 1
    /\ local' = [local EXCEPT ![r].savedAt = writes + 1]
    /\ resp' = [resp EXCEPT ![r] = PredictResponse(req[r], local[r].result)]
    /\ pc' = [pc EXCEPT ![r] = "done"]
    /\ UNCHANGED <<req, raised, uploads, detectLog, crashes>>

\* user_history, app.py:134-137, for the request q that arrives as request r.
UserHistory(r) ==
    /\ NextToArrive(r)
    /\ \E q \in HistoryRequests :
          /\ req' = [req EXCEPT ![r] = q]
          /\ IF LoadHistory(historyFile).ok
             THEN /\ local' = [local EXCEPT
                                 ![r].history = LoadHistory(historyFile).history,
                                 ![r].loaded = TRUE,
                                 ![r].loadedAt = writes,
                                 ![r].process = crashes]
                  /\ resp' = [resp EXCEPT ![r] =
                                [status |-> 200,
                                 body |-> UserRecords(LoadHistory(historyFile).history,
                                                      q.username)]]
                  /\ UNCHANGED raised
             ELSE /\ raised' = [raised EXCEPT ![r] = "JSONDecodeError"]
                  /\ resp' = [resp EXCEPT ![r] = ServerError]
                  /\ local' = [local EXCEPT ![r].process = crashes]
    /\ pc' = [pc EXCEPT ![r] = "done"]
    /\ UNCHANGED <<historyFile, uploads, detectLog, writes, crashes>>

\* The process dies while it is handling requests: they get no response, and
\* the files stay as they are.  The restarted process takes the later requests.
\* (local keeps what a killed handler held when it died.)
Crash ==
    /\ \E r \in Req : InFlight(r)
    /\ pc' = [r \in Req |-> IF InFlight(r) THEN "killed" ELSE pc[r]]
    /\ crashes' = crashes + 1
    /\ UNCHANGED <<req, local, resp, raised, historyFile, uploads, detectLog,
                   writes>>

Next ==
    \/ \E r \in Req : PredictStart(r)
    \/ \E r \in Req : PredictDetect(r)
    \/ \E r \in Req : PredictLoadHistory(r)
    \/ \E r \in Req : PredictSaveOpen(r)
    \/ \E r \in Req : PredictSaveWrite(r)
    \/ \E r \in Req : UserHistory(r)
    \/ Crash

Spec == Init /\ [][Next]_vars

(* ------------------------------ properties ---------------------------- *)

Range(seq) == {seq[i] : i \in 1..Len(seq)}

IsPrefix(s, t) == Len(s) <= Len(t) /\ SubSeq(t, 1, Len(s)) = s

\* Request r is a POST /predict that has returned 200.
Ok200(r) ==
    /\ pc[r] = "done"
    /\ req[r].route = "predict"
    /\ req[r].method = "POST"
    /\ resp[r].status = 200

\* The record that the handler of r built.
RecordOf(r) ==
    HistoryRecord(req[r], local[r].filename, local[r].result, local[r].timestamp)

\* The records in the store that this run of the server appended.
StoredThisRun ==
    SelectSeq(LoadHistory(historyFile).history, LAMBDA h : h # EarlierRecord)

\* No request is being handled, and the process never died.
Quiescent == crashes = 0 /\ \A r \in Req : ~InFlight(r)

\* history.json holds bytes that json.load rejects.
Unreadable(file) == file.state \in {"truncated", "corrupt"}

\* Request r arrives in this step.
Arrives(r) == pc[r] = "idle" /\ pc'[r] # "idle"

\* C1: once every request has completed (none in flight, no crash, the file
\* readable), the store holds the record of every POST /predict that returned
\* 200, with the submitted username or "unknown", and as many records of this
\* run as there are such requests.
C1_OneRecordPerOkPredict ==
    (Quiescent /\ LoadHistory(historyFile).ok) =>
        /\ \A r \in Req :
              Ok200(r) =>
                 \E h \in Range(LoadHistory(historyFile).history) :
                    h = RecordOf(r) /\ h.username = Username(req[r])
        /\ Len(StoredThisRun) = Cardinality({r \in Req : Ok200(r)})

\* C2: a GET /history/u handled when history.json is absent or a valid array
\* answers 200 with exactly the stored records whose username is u, in the
\* order of the store; that is the empty array when no record has username u.
C2_HistoryReturnsUserRecords ==
    [][\A r \in Req :
          (/\ Arrives(r)
           /\ req'[r].route = "history"
           /\ historyFile.state \in {"absent", "valid"})
          => LET u == req'[r].username IN
             /\ pc'[r] = "done"
             /\ resp'[r].status = 200
             /\ resp'[r].body = SelectSeq(historyFile.recs, LAMBDA h : h.username = u)
             /\ (\A h \in Range(historyFile.recs) : h.username # u)
                   => resp'[r].body = <<>>
             /\ historyFile' = historyFile]_vars

\* C2 witness: a history query answered with some records while the store also
\* holds a record whose username differs from u only by case.
C2_Witness ==
    \E r \in Req :
       /\ pc[r] = "done"
       /\ req[r].route = "history"
       /\ resp[r].status = 200
       /\ Len(resp[r].body) >= 1
       /\ \E h \in Range(local[r].history) :
             h.username # req[r].username /\ Lower(h.username) = Lower(req[r].username)

\* C3: with every request completed, the record of each POST /predict that
\* returned 200 is among the records that GET /history/u returns for its
\* username, and its result, score and artifact URLs are those of the response.
C3_RoundTrip ==
    \A p \in Req :
       (Ok200(p) /\ Quiescent /\ LoadHistory(historyFile).ok) =>
          \E h \in Range(UserRecords(LoadHistory(historyFile).history,
                                     Username(req[p]))) :
             /\ h = RecordOf(p)
             /\ h.result = resp[p].body.result
             /\ h.score = resp[p].body.anomaly_score
             /\ h.outline_image = resp[p].body.outline_image
             /\ h.filled_image = resp[p].body.filled_image

\* C4: the store is append-only: the sequence that a completed /predict wrote
\* to history.json is a prefix of every valid content the file has later.
C4_AppendOnly ==
    \A r \in Req :
       (Ok200(r) /\ historyFile.state = "valid") =>
          IsPrefix(local[r].history, historyFile.recs)

\* C5: a POST /predict without an image field is answered 400 "No image
\* provided" in one step that leaves the upload directory and history.json as
\* they are and does not call the detector.
C5_NoImageRejected ==
    [][\A r \in Req :
          (/\ Arrives(r)
           /\ req'[r].route = "predict"
           /\ req'[r].method = "POST"
           /\ req'[r].image = NoField)
          => /\ pc'[r] = "done"
             /\ resp'[r].status = 400
             /\ resp'[r].body = [error |-> "No image provided"]
             /\ uploads' = uploads
             /\ historyFile' = historyFile
             /\ writes' = writes
             /\ detectLog' = detectLog]_vars

\* C5 witness: such a request has been answered.
C5_Witness ==
    \E r \in Req :
       /\ pc[r] = "done"
       /\ req[r].route = "predict"
       /\ req[r].method = "POST"
       /\ req[r].image = NoField
       /\ resp[r].status = 400

\* C6: a POST /predict whose image has an empty filename is answered 400 "Empty
\* filename" in one step that leaves the upload directory and history.json as
\* they are, neither reads the history nor calls the detector.
C6_EmptyFilenameRejected ==
    [][\A r \in Req :
          (/\ Arrives(r)
           /\ req'[r].route = "predict"
           /\ req'[r].method = "POST"
           /\ req'[r].image = "")
          => /\ pc'[r] = "done"
             /\ resp'[r].status = 400
             /\ resp'[r].body = [error |-> "Empty filename"]
             /\ uploads' = uploads
             /\ historyFile' = historyFile
             /\ writes' = writes
             /\ detectLog' = detectLog
             /\ ~local'[r].loaded]_vars

\* C6 witness: such a request has been answered.
C6_Witness ==
    \E r \in Req :
       /\ pc[r] = "done"
       /\ req[r].method = "POST"
       /\ req[r].image = ""
       /\ resp[r].status = 400
       /\ raised[r] = ""

\* Requests a and b both returned 200, and each read history.json before the
\* other wrote it.
Overlapped(a, b) ==
    /\ a # b
    /\ Ok200(a)
    /\ Ok200(b)
    /\ local[a].loadedAt < local[b].savedAt
    /\ local[b].loadedAt < local[a].savedAt

\* C7: whenever two /predict requests that both returned 200 each loaded the
\* history before the other saved it, a valid store holds fewer records of
\* this run than there were 200 responses: an update is lost.
C7_LostUpdate ==
    \A a, b \in Req :
       (Overlapped(a, b) /\ historyFile.state = "valid") =>
          Len(StoredThisRun) < Cardinality({r \in Req : Ok200(r)})

\* C7 witness: both requests loaded before either saved, both returned 200, and
\* the store holds the record of b and not that of a.
C7_Witness ==
    \E a, b \in Req :
       /\ Overlapped(a, b)
       /\ local[a].loadedAt = 0
       /\ local[b].loadedAt = 0
       /\ historyFile.state = "valid"
       /\ RecordOf(b) \in Range(historyFile.recs)
       /\ RecordOf(a) \notin Range(historyFile.recs)

\* C8: an OPTIONS request to /predict is answered 200 {"ok": true} in one step,
\* with or without an image, that writes no file, does not call the detector
\* and leaves history.json as it is.
C8_PreflightBypasses ==
    [][\A r \in Req :
          (/\ Arrives(r)
           /\ req'[r].route = "predict"
           /\ req'[r].method = "OPTIONS")
          => /\ pc'[r] = "done"
             /\ resp'[r].status = 200
             /\ resp'[r].body = [ok |-> TRUE]
             /\ uploads' = uploads
             /\ historyFile' = historyFile
             /\ writes' = writes
             /\ detectLog' = detectLog]_vars

\* C8 witness: an OPTIONS request that carried an image has been answered and
\* the image is not in the upload directory.
C8_Witness ==
    \E r \in Req :
       /\ pc[r] = "done"
       /\ req[r].method = "OPTIONS"
       /\ req[r].image = "../cat.png"
       /\ resp[r].status = 200
       /\ SecureFilename(req[r].image) \notin uploads

\* C9: a request that loads history.json while it is truncated or damaged ends
\* as a server error (JSONDecodeError) and leaves the file as it is; a crash
\* of a handler that has opened the file leaves it as it is; and once the file
\* is unreadable with no handler left that loaded it earlier, it stays
\* unreadable.
C9_TornWriteIsPermanent ==
    [][/\ \A r \in Req :
             (/\ Unreadable(historyFile)
              /\ \/ pc[r] = "load" /\ pc'[r] \notin {"load", "killed"}
                 \/ Arrives(r) /\ req'[r].route = "history")
             => /\ pc'[r] = "done"
                /\ resp'[r] = ServerError
                /\ raised'[r] = "JSONDecodeError"
                /\ historyFile' = historyFile
       /\ (\E r \in Req : pc[r] = "write" /\ pc'[r] = "killed")
             => historyFile' = historyFile
       /\ (Unreadable(historyFile) /\ \A r \in Req : pc[r] \notin {"append", "write"})
             => Unreadable(historyFile')]_vars

\* C9 witness: a handler that had loaded stored records died between the
\* truncation and the write, the file is empty, and a request handled by the
\* restarted process failed on it.
C9_Witness ==
    \E r, h \in Req :
       /\ pc[r] = "killed"
       /\ Len(local[r].history) >= 2
       /\ historyFile.state = "truncated"
       /\ pc[h] = "done"
       /\ local[h].process > local[r].process
       /\ raised[h] = "JSONDecodeError"
       /\ resp[h].status = 500

\* C10: when detect_anomaly raises, the handler ends in that step as a server
\* error after that single call, without having read or written history.json,
\* and the upload is in the upload directory under its sanitized name; no step
\* removes a file from the upload directory.
C10_AdapterFailure ==
    [][/\ \A r \in Req :
             (/\ Len(detectLog'[r]) = Len(detectLog[r]) + 1
              /\ detectLog'[r][Len(detectLog'[r])] = "raised")
             => /\ pc'[r] = "done"
                /\ resp'[r] = ServerError
                /\ raised'[r] = "AdapterError"
                /\ Len(detectLog'[r]) = 1
                /\ ~local'[r].loaded
                /\ historyFile' = historyFile
                /\ writes' = writes
                /\ local'[r].filename = SecureFilename(req'[r].image)
                /\ local'[r].filename \in uploads'
       /\ uploads \subseteq uploads']_vars

\* C10 witness: a request whose detector call raised has been answered 500 and
\* its upload is stored under the sanitized name.
C10_Witness ==
    \E r \in Req :
       /\ pc[r] = "done"
       /\ detectLog[r] = <<"raised">>
       /\ resp[r].status = 500
       /\ req[r].image = "../cat.png"
       /\ "cat.png" \in uploads

====
